---- MODULE Spec2Model ----
(***************************************************************************)
(* Model of app.py, the Provar AI test generator: the session state kept   *)
(* in st.session_state, the button handlers of the page script, the two    *)
(* API functions and the validator.                                        *)
(*                                                                         *)
(* Text is a sequence of one-character strings, so that substring tests,   *)
(* strip() and the fence regular expressions are computed character by     *)
(* character.  The backquote cannot be written in a TLA+ string; the       *)
(* character is written BQ.  The check mark U+2713 that starts the info    *)
(* messages is written "OK".                                               *)
(*                                                                         *)
(* A script run is taken to run to its end: there is no step for a run     *)
(* that Streamlit abandons because a widget is touched while it runs.      *)
(* Uploaded files are taken to be images that Image.open can read.         *)
(***************************************************************************)
EXTENDS Integers, Sequences, FiniteSets, TLC

VARIABLES
    generated_test,      \* st.session_state.generated_test (Optional text)
    validation_results,  \* st.session_state.validation_results (Optional dict)
    detected_elements,   \* st.session_state.detected_elements
    screenshots,         \* st.session_state.screenshots
    uploaded_files,      \* the files held by the st.file_uploader widget
    pc,                  \* position of the page script: idle, analyzing, generating
    inputs,              \* the widget values the running attempt was started with
    issued,              \* the requests posted during the current script run
    results,             \* for each returned call: its response and what the function returned
    reported,            \* the st.error / st.success messages of the current script run
    pre,                 \* Some(session state at the Generate click) while the last script run is an attempt
    fnArg,               \* argument of a function applied in isolation
    fnRes                \* its result

vars == <<generated_test, validation_results, detected_elements, screenshots,
          uploaded_files, pc, inputs, issued, results, reported, pre, fnArg, fnRes>>

----------------------------------------------------------------------------
(* Python values *)

None == [some |-> FALSE]
Some(v) == [some |-> TRUE, val |-> v]

\* Python truthiness of an Optional text or list: None and the empty value are falsy
Truthy(o) == o.some /\ o.val # <<>>

----------------------------------------------------------------------------
(* Text *)

BQ == "BQ"
NL == "\n"
SP == " "

RECURSIVE Flatten(_)
Flatten(ss) == IF ss = <<>> THEN <<>> ELSE Head(ss) \o Flatten(Tail(ss))

\* text[i:].startswith(pat), i counted from 1
MatchAt(text, pat, i) ==
    /\ i >= 1
    /\ i + Len(pat) - 1 <= Len(text)
    /\ \A j \in 1..Len(pat) : text[i + j - 1] = pat[j]

\* pat in text
Contains(text, pat) == \E i \in 1..(Len(text) + 1) : MatchAt(text, pat, i)

StartsWith(text, pat) == MatchAt(text, pat, 1)

\* len(re.findall(pat, text)): non-overlapping matches, scanned left to right
RECURSIVE CountFrom(_, _, _)
CountFrom(text, pat, i) ==
    IF i + Len(pat) - 1 > Len(text) THEN 0
    ELSE IF MatchAt(text, pat, i) THEN 1 + CountFrom(text, pat, i + Len(pat))
    ELSE CountFrom(text, pat, i + 1)

\* a count of the pattern followed by a space only
FindAllCount_with_space(text, pat) == CountFrom(text, pat \o <<" ">>, 1)

FindAllCount(text, pat) == CountFrom(text, pat, 1)

\* the white space that strip() removes
IsSpace(c) == c \in {" ", "\n", "\t", "\r", "\f"}

\* str.strip()
Strip(text) ==
    LET keep == {i \in 1..Len(text) : ~IsSpace(text[i])}
    IN IF keep = {} THEN <<>>
       ELSE LET lo == CHOOSE i \in keep : \A k \in keep : i <= k
                hi == CHOOSE i \in keep : \A k \in keep : i >= k
            IN SubSeq(text, lo, hi)

----------------------------------------------------------------------------
(* The literals that the validator and the fence expressions look for *)

T_xml_decl == <<"<", "?", "x", "m", "l">>
T_testCase == <<"<", "t", "e", "s", "t", "C", "a", "s", "e">>
T_summary == <<"<", "s", "u", "m", "m", "a", "r", "y", ">">>
T_steps == <<"<", "s", "t", "e", "p", "s", ">">>
T_locator == <<"<", "l", "o", "c", "a", "t", "o", "r">>
T_step == <<"<", "s", "t", "e", "p">>
T_SfNavigate == <<"S", "f", "N", "a", "v", "i", "g", "a", "t", "e">>
T_SfClick == <<"S", "f", "C", "l", "i", "c", "k">>
T_SfEnterText == <<"S", "f", "E", "n", "t", "e", "r", "T", "e", "x", "t">>
T_SfVerify == <<"S", "f", "V", "e", "r", "i", "f", "y">>
T_SfLogin == <<"S", "f", "L", "o", "g", "i", "n">>
T_SfWait == <<"S", "f", "W", "a", "i", "t">>
T_SfSelect == <<"S", "f", "S", "e", "l", "e", "c", "t">>
T_waitForPageLoad == <<"w", "a", "i", "t", "F", "o", "r", "P", "a", "g", "e", "L", "o", "a", "d">>
T_Assert == <<"A", "s", "s", "e", "r", "t">>
FENCE_XML_OPEN == <<BQ, BQ, BQ, "x", "m", "l", NL>>
FENCE_OPEN == <<BQ, BQ, BQ, NL>>
FENCE_CLOSE == <<NL, BQ, BQ, BQ>>

sf_actions == <<T_SfNavigate, T_SfClick, T_SfEnterText, T_SfVerify, T_SfLogin, T_SfWait, T_SfSelect>>

----------------------------------------------------------------------------
(* validate_provar_test *)

StepsMessage(n) == "OK Contains " \o ToString(n) \o " test steps"

\* list.append applied only when the condition holds
AppendIf(list, cond, msg) == IF cond THEN Append(list, msg) ELSE list

\* a validator in which a missing steps element does not clear is_valid
validate_provar_test_steps_not_fatal(xml_content) ==
    LET no_root == ~Contains(xml_content, T_testCase)
        no_steps == ~Contains(xml_content, T_steps)
        has_sf_actions == \E k \in 1..Len(sf_actions) : Contains(xml_content, sf_actions[k])
        no_locator == ~Contains(xml_content, T_locator)
        step_matches == FindAllCount(xml_content, T_step)
        e1 == AppendIf(<<>>, no_root, "Missing <testCase> root element")
        e2 == AppendIf(e1, no_steps, "Missing <steps> element")
        w1 == AppendIf(<<>>, ~StartsWith(xml_content, T_xml_decl), "Missing XML declaration")
        w2 == AppendIf(w1, ~Contains(xml_content, T_summary), "Missing <summary> element")
        w3 == AppendIf(w2, ~has_sf_actions,
                       "No Salesforce-specific actions found. Generic actions may not work in Provar.")
        w4 == AppendIf(w3, no_locator, "No element locators found")
        i1 == AppendIf(<<>>, has_sf_actions, "OK Contains Salesforce-specific Provar actions")
        i2 == AppendIf(i1, ~no_locator, "OK Contains element locators")
        i3 == AppendIf(i2, step_matches > 0, StepsMessage(step_matches))
        i4 == AppendIf(i3, Contains(xml_content, T_SfWait) \/ Contains(xml_content, T_waitForPageLoad),
                       "OK Includes wait conditions")
        i5 == AppendIf(i4, Contains(xml_content, T_SfVerify) \/ Contains(xml_content, T_Assert),
                       "OK Includes verification/assertions")
    IN [is_valid |-> ~no_root, errors |-> e2, warnings |-> w4, info |-> i5]

validate_provar_test(xml_content) ==
    LET no_root == ~Contains(xml_content, T_testCase)
        no_steps == ~Contains(xml_content, T_steps)
        has_sf_actions == \E k \in 1..Len(sf_actions) : Contains(xml_content, sf_actions[k])
        no_locator == ~Contains(xml_content, T_locator)
        step_matches == FindAllCount(xml_content, T_step)
        e1 == AppendIf(<<>>, no_root, "Missing <testCase> root element")
        e2 == AppendIf(e1, no_steps, "Missing <steps> element")
        w1 == AppendIf(<<>>, ~StartsWith(xml_content, T_xml_decl), "Missing XML declaration")
        w2 == AppendIf(w1, ~Contains(xml_content, T_summary), "Missing <summary> element")
        w3 == AppendIf(w2, ~has_sf_actions,
                       "No Salesforce-specific actions found. Generic actions may not work in Provar.")
        w4 == AppendIf(w3, no_locator, "No element locators found")
        i1 == AppendIf(<<>>, has_sf_actions, "OK Contains Salesforce-specific Provar actions")
        i2 == AppendIf(i1, ~no_locator, "OK Contains element locators")
        i3 == AppendIf(i2, step_matches > 0, StepsMessage(step_matches))
        i4 == AppendIf(i3, Contains(xml_content, T_SfWait) \/ Contains(xml_content, T_waitForPageLoad),
                       "OK Includes wait conditions")
        i5 == AppendIf(i4, Contains(xml_content, T_SfVerify) \/ Contains(xml_content, T_Assert),
                       "OK Includes verification/assertions")
    IN [is_valid |-> ~no_root /\ ~no_steps, errors |-> e2, warnings |-> w4, info |-> i5]

----------------------------------------------------------------------------
(* The fence stripping of generate_provar_test *)

\* re.search(open ([\s\S]*?) \n```, text): the leftmost opening marker that is
\* followed by a closing marker, and the nearest closing marker after it;
\* the value is group(1), or None when there is no match
ReSearchFence(text, open) ==
    LET closes(i) == {j \in (i + Len(open))..Len(text) : MatchAt(text, FENCE_CLOSE, j)}
        starts == {i \in 1..Len(text) : MatchAt(text, open, i) /\ closes(i) # {}}
    IN IF starts = {} THEN None
       ELSE LET i == CHOOSE a \in starts : \A b \in starts : a <= b
                j == CHOOSE a \in closes(i) : \A b \in closes(i) : a <= b
            IN Some(SubSeq(text, i + Len(open), j - 1))

\* an extraction that tries the generic fence before the labeled one
ExtractXml_generic_first(xml_content) ==
    LET xml_match == ReSearchFence(xml_content, FENCE_OPEN)
        xml_match2 == ReSearchFence(xml_content, FENCE_XML_OPEN)
    IN IF xml_match.some THEN Strip(xml_match.val)
       ELSE IF xml_match2.some THEN Strip(xml_match2.val)
       ELSE Strip(xml_content)

ExtractXml(xml_content) ==
    LET xml_match == ReSearchFence(xml_content, FENCE_XML_OPEN)
        xml_match2 == ReSearchFence(xml_content, FENCE_OPEN)
    IN IF xml_match.some THEN Strip(xml_match.val)
       ELSE IF xml_match2.some THEN Strip(xml_match2.val)
       ELSE Strip(xml_content)

----------------------------------------------------------------------------
(* Uploaded files and the screenshots queue *)

B64Alphabet ==
    <<"A", "B", "C", "D", "E", "F", "G", "H", "I", "J", "K", "L", "M", "N", "O", "P",
      "Q", "R", "S", "T", "U", "V", "W", "X", "Y", "Z", "a", "b", "c", "d", "e", "f",
      "g", "h", "i", "j", "k", "l", "m", "n", "o", "p", "q", "r", "s", "t", "u", "v",
      "w", "x", "y", "z", "0", "1", "2", "3", "4", "5", "6", "7", "8", "9", "+", "/">>

B64Char(n) == B64Alphabet[n + 1]

\* base64.b64encode(bytes).decode(): three bytes become four characters, the
\* last group is padded with "="
RECURSIVE b64encode(_)
b64encode(bytes) ==
    IF bytes = <<>> THEN <<>>
    ELSE IF Len(bytes) = 1 THEN
        <<B64Char(bytes[1] \div 4), B64Char((bytes[1] % 4) * 16), "=", "=">>
    ELSE IF Len(bytes) = 2 THEN
        <<B64Char(bytes[1] \div 4),
          B64Char((bytes[1] % 4) * 16 + bytes[2] \div 16),
          B64Char((bytes[2] % 16) * 4), "=">>
    ELSE
        <<B64Char(bytes[1] \div 4),
          B64Char((bytes[1] % 4) * 16 + bytes[2] \div 16),
          B64Char((bytes[2] % 16) * 4 + bytes[3] \div 64),
          B64Char(bytes[3] % 64)>> \o b64encode(SubSeq(bytes, 4, Len(bytes)))

\* Image.open(uploaded_file): the format is read from the file's signature
Image_open(bytes) == [format |-> IF bytes[1] = 137 THEN "PNG" ELSE "JPEG"]

\* the MIME type of an image format
MimeOf(format) == IF format = "PNG" THEN "image/png" ELSE "image/jpeg"

\* the files a user can put in the uploader: type=['png', 'jpg', 'jpeg']
JpegFile == [name |-> "login.jpg", type |-> "image/jpeg", bytes |-> <<255, 216, 255>>]
PngFile == [name |-> "home.png", type |-> "image/png", bytes |-> <<137, 80>>]
Files == {JpegFile, PngFile}

MaxImages == 2

RECURSIVE SeqsUpTo(_, _)
SeqsUpTo(S, n) ==
    IF n = 0 THEN {<<>>}
    ELSE LET shorter == SeqsUpTo(S, n - 1)
         IN shorter \cup {Append(q, x) : q \in shorter, x \in S}

Uploads == SeqsUpTo(Files, MaxImages)

\* the entry appended to st.session_state.screenshots for one uploaded file
ScreenshotOf(uploaded_file) ==
    [name |-> uploaded_file.name,
     image |-> Image_open(uploaded_file.bytes),
     data |-> b64encode(uploaded_file.bytes)]

\* the uploader block of the page script, run on every script run: a non-empty
\* uploader replaces the queue, an empty one leaves it as it was
SyncScreenshots(files, queue) ==
    IF files # <<>> THEN [i \in 1..Len(files) |-> ScreenshotOf(files[i])] ELSE queue

----------------------------------------------------------------------------
(* HTTP responses.  status = NO_RESPONSE stands for requests.post raising  *)
(* (connection error or timeout); body_ok = FALSE for a body from which    *)
(* response.json()['content'][0]['text'] cannot be read.                   *)

NO_RESPONSE == 0
HTTP_OK == 200
TIMEOUT == 60

TransportError == [status |-> NO_RESPONSE, body_ok |-> FALSE, text |-> <<>>]
HttpResponse(status, text) == [status |-> status, body_ok |-> TRUE, text |-> text]
MalformedBody(status) == [status |-> status, body_ok |-> FALSE, text |-> <<>>]

----------------------------------------------------------------------------
(* analyze_screenshot_with_ai.  The text of a vision response is a sequence *)
(* of lexemes: brackets, commas, JSON object literals and other text.       *)

ObjectValue(tok) ==
    IF tok = "{username}" THEN [type |-> "input", label |-> "Username", action |-> "enterText"]
    ELSE IF tok = "{password}" THEN [type |-> "input", label |-> "Password", id |-> "pw", action |-> "enterText"]
    ELSE [type |-> "button", label |-> "Login", xpath |-> "//button", action |-> "click"]

ObjectLexemes == {"{username}", "{password}", "{login}"}

\* re.search(r'\[[\s\S]*\]', content): from the first "[" to the last "]" after it
ReSearchArray(content) ==
    LET opens == {i \in 1..Len(content) : content[i] = "["}
    IN IF opens = {} THEN None
       ELSE LET i == CHOOSE a \in opens : \A b \in opens : a <= b
                closes == {j \in (i + 1)..Len(content) : content[j] = "]"}
            IN IF closes = {} THEN None
               ELSE LET j == CHOOSE a \in closes : \A b \in closes : a >= b
                    IN Some(SubSeq(content, i, j))

\* json.loads of a bracketed span holding objects separated by commas; None
\* stands for json.JSONDecodeError
json_loads(span) ==
    LET inner == SubSeq(span, 2, Len(span) - 1)
        wellformed ==
            \/ inner = <<>>
            \/ /\ Len(inner) % 2 = 1
               /\ \A k \in 1..Len(inner) :
                    IF k % 2 = 1 THEN inner[k] \in ObjectLexemes ELSE inner[k] = ","
    IN IF wellformed
       THEN Some([k \in 1..((Len(inner) + 1) \div 2) |-> ObjectValue(inner[2 * k - 1])])
       ELSE None

VisionRequest(image_data) ==
    [kind |-> "vision", media_type |-> "image/jpeg", data |-> image_data, timeout |-> TIMEOUT]

\* what the function returns for a response: ret, the list returned; errors,
\* the st.error messages it shows; extracted, whether the response text was
\* searched for the array
analyze_screenshot_with_ai(response) ==
    IF response.status = NO_RESPONSE THEN
        [ret |-> <<>>, errors |-> <<"Screenshot analysis failed">>, extracted |-> FALSE]
    ELSE IF response.status = HTTP_OK THEN
        IF ~response.body_ok THEN
            [ret |-> <<>>, errors |-> <<"Screenshot analysis failed">>, extracted |-> FALSE]
        ELSE LET json_match == ReSearchArray(response.text)
             IN IF json_match.some THEN
                    LET elements == json_loads(json_match.val)
                    IN IF elements.some
                       THEN [ret |-> elements.val, errors |-> <<>>, extracted |-> TRUE]
                       ELSE [ret |-> <<>>, errors |-> <<"Screenshot analysis failed">>,
                             extracted |-> TRUE]
                ELSE [ret |-> <<>>, errors |-> <<>>, extracted |-> TRUE]
    ELSE [ret |-> <<>>, errors |-> <<>>, extracted |-> FALSE]

----------------------------------------------------------------------------
(* generate_provar_test *)

\* the request posted: the prompt is built from the test details, the
\* detected elements when there are any, and the DOM when there is one
GenerationRequest(test_name, url, description, dom_html, elements) ==
    [kind |-> "generation",
     test_name |-> test_name,
     url |-> IF url = "" THEN "Salesforce Login Page" ELSE url,
     description |-> description,
     elements_info |-> elements,
     dom_info |-> dom_html,
     timeout |-> TIMEOUT]

\* a variant that returns the response text stripped, fences included
generate_provar_test_keeps_fence(response) ==
    IF response.status = NO_RESPONSE THEN
        [ret |-> None, errors |-> <<"Test generation failed">>]
    ELSE IF response.status = HTTP_OK THEN
        IF ~response.body_ok
        THEN [ret |-> None, errors |-> <<"Test generation failed">>]
        ELSE [ret |-> Some(Strip(response.text)), errors |-> <<>>]
    ELSE [ret |-> None, errors |-> <<"API Error">>]

\* ret is the value returned (None or the extracted text), errors the
\* st.error messages shown by the function
generate_provar_test(response) ==
    IF response.status = NO_RESPONSE THEN
        [ret |-> None, errors |-> <<"Test generation failed">>]
    ELSE IF response.status = HTTP_OK THEN
        IF ~response.body_ok
        THEN [ret |-> None, errors |-> <<"Test generation failed">>]
        ELSE [ret |-> Some(ExtractXml(response.text)), errors |-> <<>>]
    ELSE [ret |-> None, errors |-> <<"API Error">>]

----------------------------------------------------------------------------
(* The responses the API can give *)

VisionResponses ==
    {TransportError,
     HttpResponse(401, <<"x">>),
     HttpResponse(HTTP_OK, <<"[", "{login}", "]">>),
     HttpResponse(HTTP_OK, <<"x", "[", "{username}", ",", "{password}", "]", "x">>)}

DocValid == Flatten(<<T_xml_decl, <<NL>>, T_testCase, T_steps, T_step, T_SfVerify>>)
DocFenced == Flatten(<<<<"H", "i", NL>>, FENCE_XML_OPEN, T_testCase, <<SP>>, FENCE_CLOSE>>)
DocBlank == <<SP, NL>>

GenerationResponses ==
    {TransportError,
     HttpResponse(500, <<"e", "r", "r">>),
     MalformedBody(HTTP_OK),
     HttpResponse(HTTP_OK, DocValid),
     HttpResponse(HTTP_OK, DocFenced),
     HttpResponse(HTTP_OK, DocBlank)}

TestNames == {"", "SF_Login_Test"}
Descriptions == {"", "Login and verify dashboard"}
DomHtmls == {"", "<div class=slds-form>"}
Urls == {"https://login.salesforce.com"}

----------------------------------------------------------------------------
(* The page script *)

PRECONDITION_MESSAGE == "Please provide Test Name and Description"
FAILED_MESSAGE == "Failed to generate test case. Please try again."
SUCCESS_MESSAGE == "Test case generated successfully!"

NoInputs == [test_name |-> "", url |-> "", description |-> "", dom_html |-> ""]
Snapshot == [generated_test |-> generated_test,
             validation_results |-> validation_results,
             detected_elements |-> detected_elements]

Unused == None

\* the session state initialisation at the top of the script
SessionInit ==
    /\ generated_test = None
    /\ validation_results = None
    /\ detected_elements = <<>>
    /\ screenshots = <<>>
    /\ uploaded_files = <<>>
    /\ pc = "idle"
    /\ inputs = NoInputs
    /\ issued = <<>>
    /\ results = <<>>
    /\ reported = <<>>
    /\ pre = None

sessionVars == <<generated_test, validation_results, detected_elements, screenshots,
                 uploaded_files, pc, inputs, issued, results, reported, pre>>

Init == SessionInit /\ fnArg = Unused /\ fnRes = Unused

\* a guard that lets an attempt through when only one of the two is given
PreconditionFails_both(test_name, description) == test_name = "" /\ description = ""

\* not test_name or not description
PreconditionFails(test_name, description) == test_name = "" \/ description = ""

\* an accumulation that puts the new elements in front
Extend_front(detected, elements) ==
    IF elements # <<>> THEN elements \o detected ELSE detected

\* if elements: st.session_state.detected_elements.extend(elements)
Extend(detected, elements) ==
    IF elements # <<>> THEN detected \o elements ELSE detected

\* an analysis that runs whenever images are queued
ShouldAnalyze_any_queue(queue, detected) == queue # <<>>

\* if st.session_state.screenshots and not st.session_state.detected_elements
ShouldAnalyze(queue, detected) == queue # <<>> /\ detected = <<>>

\* a loop that stops after its first image
MoreImages_first_only(done, queue) == FALSE

\* for img_data in st.session_state.screenshots: images are left after the
\* first done of them
MoreImages(done, queue) == done < Len(queue)

\* the user changes the files in the uploader; the script runs with no button pressed
Upload(files) ==
    /\ pc = "idle"
    /\ files # uploaded_files
    /\ uploaded_files' = files
    /\ screenshots' = SyncScreenshots(files, screenshots)
    /\ issued' = <<>>
    /\ results' = <<>>
    /\ reported' = <<>>
    /\ pre' = None
    /\ UNCHANGED <<generated_test, validation_results, detected_elements, pc, inputs,
                   fnArg, fnRes>>

\* the Generate button is pressed: the script runs up to its first network call
ClickGenerate(test_name, url, description, dom_html) ==
    LET queue == SyncScreenshots(uploaded_files, screenshots)
    IN /\ pc = "idle"
       /\ inputs' = [test_name |-> test_name, url |-> url,
                     description |-> description, dom_html |-> dom_html]
       /\ screenshots' = queue
       /\ results' = <<>>
       /\ pre' = Some(Snapshot)
       /\ IF PreconditionFails(test_name, description) THEN
              /\ reported' = <<PRECONDITION_MESSAGE>>
              /\ issued' = <<>>
              /\ pc' = "idle"
          ELSE IF ShouldAnalyze(queue, detected_elements) THEN
              /\ reported' = <<>>
              /\ issued' = <<VisionRequest(queue[1].data)>>
              /\ pc' = "analyzing"
          ELSE
              /\ reported' = <<>>
              /\ issued' = <<GenerationRequest(test_name, url, description, dom_html,
                                               detected_elements)>>
              /\ pc' = "generating"
       /\ UNCHANGED <<generated_test, validation_results, detected_elements, uploaded_files,
                      fnArg, fnRes>>

\* a loop that gives the attempt up when a vision call returns no elements
VisionReturn_gives_up(response) ==
    LET r == analyze_screenshot_with_ai(response)
        elements == r.ret
        accumulated == Extend(detected_elements, elements)
        done == Len(results) + 1
    IN /\ pc = "analyzing"
       /\ detected_elements' = accumulated
       /\ results' = Append(results, [response |-> response, ret |-> Some(elements),
                                      extracted |-> r.extracted, errors |-> r.errors])
       /\ IF elements = <<>> THEN
              /\ reported' = (reported \o r.errors) \o <<FAILED_MESSAGE>>
              /\ issued' = issued
              /\ pc' = "idle"
          ELSE IF MoreImages(done, screenshots) THEN
              /\ reported' = reported \o r.errors
              /\ issued' = Append(issued, VisionRequest(screenshots[done + 1].data))
              /\ pc' = "analyzing"
          ELSE
              /\ reported' = reported \o r.errors
              /\ issued' = Append(issued, GenerationRequest(inputs.test_name, inputs.url,
                                              inputs.description, inputs.dom_html, accumulated))
              /\ pc' = "generating"
       /\ UNCHANGED <<generated_test, validation_results, screenshots, uploaded_files,
                      inputs, pre, fnArg, fnRes>>

\* the vision call of the current image returns; the loop goes on to the next
\* image, or the generation request is posted
VisionReturn(response) ==
    LET r == analyze_screenshot_with_ai(response)
        elements == r.ret
        accumulated == Extend(detected_elements, elements)
        done == Len(results) + 1
    IN /\ pc = "analyzing"
       /\ detected_elements' = accumulated
       /\ results' = Append(results, [response |-> response, ret |-> Some(elements),
                                      extracted |-> r.extracted, errors |-> r.errors])
       /\ reported' = reported \o r.errors
       /\ IF MoreImages(done, screenshots) THEN
              /\ issued' = Append(issued, VisionRequest(screenshots[done + 1].data))
              /\ pc' = "analyzing"
          ELSE
              /\ issued' = Append(issued, GenerationRequest(inputs.test_name, inputs.url,
                                              inputs.description, inputs.dom_html, accumulated))
              /\ pc' = "generating"
       /\ UNCHANGED <<generated_test, validation_results, screenshots, uploaded_files,
                      inputs, pre, fnArg, fnRes>>

\* a handler that stores whatever the call returned, a failure included
GenerateReturn_stores_failure(response) ==
    LET r == generate_provar_test(response)
        generated_xml == r.ret
    IN /\ pc = "generating"
       /\ results' = Append(results, [response |-> response, ret |-> generated_xml,
                                      extracted |-> generated_xml.some, errors |-> r.errors])
       /\ IF Truthy(generated_xml) THEN
              /\ generated_test' = generated_xml
              /\ validation_results' = Some(validate_provar_test(generated_xml.val))
              /\ reported' = (reported \o r.errors) \o <<SUCCESS_MESSAGE>>
          ELSE
              /\ generated_test' = None
              /\ validation_results' = None
              /\ reported' = (reported \o r.errors) \o <<FAILED_MESSAGE>>
       /\ pc' = "idle"
       /\ UNCHANGED <<detected_elements, screenshots, uploaded_files, inputs, issued, pre,
                      fnArg, fnRes>>

\* the generation call returns; the rest of the Generate handler runs
GenerateReturn(response) ==
    LET r == generate_provar_test(response)
        generated_xml == r.ret
    IN /\ pc = "generating"
       /\ results' = Append(results, [response |-> response, ret |-> generated_xml,
                                      extracted |-> generated_xml.some, errors |-> r.errors])
       /\ IF Truthy(generated_xml) THEN
              /\ generated_test' = generated_xml
              /\ validation_results' = Some(validate_provar_test(generated_xml.val))
              /\ reported' = (reported \o r.errors) \o <<SUCCESS_MESSAGE>>
          ELSE
              /\ reported' = (reported \o r.errors) \o <<FAILED_MESSAGE>>
              /\ UNCHANGED <<generated_test, validation_results>>
       /\ pc' = "idle"
       /\ UNCHANGED <<detected_elements, screenshots, uploaded_files, inputs, issued, pre,
                      fnArg, fnRes>>

\* a Generate New that clears the document and leaves its validation
GenerateNew_keeps_validation ==
    /\ pc = "idle"
    /\ Truthy(generated_test)
    /\ generated_test' = None
    /\ screenshots' = SyncScreenshots(uploaded_files, SyncScreenshots(uploaded_files, screenshots))
    /\ issued' = <<>>
    /\ results' = <<>>
    /\ reported' = <<>>
    /\ pre' = None
    /\ UNCHANGED <<validation_results, detected_elements, uploaded_files, pc, inputs,
                   fnArg, fnRes>>

\* the Generate New button, shown only while a test is stored; st.rerun()
\* runs the script again
GenerateNew ==
    /\ pc = "idle"
    /\ Truthy(generated_test)
    /\ generated_test' = None
    /\ validation_results' = None
    /\ screenshots' = SyncScreenshots(uploaded_files, SyncScreenshots(uploaded_files, screenshots))
    /\ issued' = <<>>
    /\ results' = <<>>
    /\ reported' = <<>>
    /\ pre' = None
    /\ UNCHANGED <<detected_elements, uploaded_files, pc, inputs, fnArg, fnRes>>

\* the Clear All button of the sidebar; st.rerun() runs the script again, and
\* the uploader block refills the queue from the files the widget still holds
ClearAll ==
    /\ pc = "idle"
    /\ generated_test' = None
    /\ detected_elements' = <<>>
    /\ validation_results' = None
    /\ screenshots' = SyncScreenshots(uploaded_files, <<>>)
    /\ issued' = <<>>
    /\ results' = <<>>
    /\ reported' = <<>>
    /\ pre' = None
    /\ UNCHANGED <<uploaded_files, pc, inputs, fnArg, fnRes>>

Next ==
    \/ \E files \in Uploads : Upload(files)
    \/ \E test_name \in TestNames, url \in Urls, description \in Descriptions :
          ClickGenerate(test_name, url, description, "")
    \/ \E response \in VisionResponses : VisionReturn(response)
    \/ \E response \in GenerationResponses : GenerateReturn(response)
    \/ GenerateNew
    \/ ClearAll

Spec == Init /\ [][Next]_vars

----------------------------------------------------------------------------
(* Properties of the session *)

\* the last script run was an attempt that passed the entry guard and has ended
AttemptDone == pre.some /\ pc = "idle" /\ issued # <<>>

\* the result of the generation call of the attempt that has ended
GenResult == results[Len(results)]

Validated == reported # <<>> /\ reported[Len(reported)] = SUCCESS_MESSAGE
Failed == reported # <<>> /\ reported[Len(reported)] = FAILED_MESSAGE

\* the document doc and its validation are what the session holds, and the
\* attempt ended Validated
Superseded(doc) ==
    /\ generated_test = Some(doc)
    /\ validation_results = Some(validate_provar_test(doc))
    /\ Validated
    /\ ~Failed

\* C1: in every session state the stored validation result is absent, or a
\* document is stored and the validation result is the validator's output on
\* that document
C1_ValidationOfStoredDocument ==
    validation_results.some =>
        /\ generated_test.some
        /\ validation_results.val = validate_provar_test(generated_test.val)

\* a regeneration replaced an earlier document, and a validation is stored
C1_Witness ==
    /\ AttemptDone
    /\ validation_results.some
    /\ pre.val.generated_test.some
    /\ pre.val.generated_test # generated_test

\* C2: after an attempt whose generation call failed (no response, or a status
\* other than 200), the stored document and validation result are those the
\* session held when the attempt was started
C2_FailedGenerationKeepsResult ==
    (AttemptDone /\ GenResult.response.status # HTTP_OK) =>
        /\ generated_test = pre.val.generated_test
        /\ validation_results = pre.val.validation_results

\* a generation call failed in a session that held a document
C2_Witness ==
    /\ AttemptDone
    /\ GenResult.response.status # HTTP_OK
    /\ pre.val.generated_test.some
    /\ pre.val.validation_results.some

\* C3 as stated: after any attempt whose generation call returned status 200,
\* the stored document is the extractor's output on the response text, the
\* validation is computed from it and the attempt ended Validated
C3_Original ==
    (AttemptDone /\ GenResult.response.status = HTTP_OK) =>
        Superseded(ExtractXml(GenResult.response.text))

\* C3 amended: the same, for a 200 response whose body holds a text from which
\* the extractor produces a non-empty document
C3_SuccessSupersedes ==
    (/\ AttemptDone
     /\ GenResult.response.status = HTTP_OK
     /\ GenResult.response.body_ok
     /\ ExtractXml(GenResult.response.text) # <<>>) =>
        Superseded(ExtractXml(GenResult.response.text))

\* a fenced response replaced an earlier, different document
C3_Witness ==
    /\ AttemptDone
    /\ GenResult.response = HttpResponse(HTTP_OK, DocFenced)
    /\ pre.val.generated_test.some
    /\ pre.val.generated_test # generated_test

\* C4: after a Generate click with an empty test name or an empty description
\* the precondition failure is the only message, no request has been posted,
\* the script is idle, and elements, document and validation are as before
C4_PreconditionFailure ==
    (pre.some /\ (inputs.test_name = "" \/ inputs.description = "")) =>
        /\ reported = <<PRECONDITION_MESSAGE>>
        /\ issued = <<>>
        /\ results = <<>>
        /\ pc = "idle"
        /\ Snapshot = pre.val

\* the click had a name and no description, in a session holding a document,
\* elements and queued images
C4_Witness ==
    /\ pre.some
    /\ inputs.test_name # ""
    /\ inputs.description = ""
    /\ generated_test.some
    /\ screenshots # <<>>
    /\ reported = <<PRECONDITION_MESSAGE>>

\* the attempt analysed the queue and the analysis is over
AnalysisDone == pre.some /\ issued # <<>> /\ issued[1].kind = "vision" /\ pc # "analyzing"

\* C5: when the analysis of an attempt is over, one vision request was posted
\* for each queued image, in queue order, before the generation request; a
\* call that got no 200 response returned no elements; and the accumulated
\* elements are the lists the calls returned, concatenated in queue order
C5_AnalysisAccumulates ==
    AnalysisDone =>
        LET n == Len(screenshots)
        IN /\ Len(issued) = n + 1
           /\ Len(results) >= n
           /\ \A i \in 1..n : /\ issued[i].kind = "vision"
                              /\ issued[i].data = screenshots[i].data
           /\ issued[n + 1].kind = "generation"
           /\ \A i \in 1..n : results[i].response.status # HTTP_OK => results[i].ret.val = <<>>
           /\ detected_elements = Flatten([i \in 1..n |-> results[i].ret.val])

\* two images, the first call failed and the second returned two elements
C5_Witness ==
    /\ AnalysisDone
    /\ Len(screenshots) = 2
    /\ results[1].response = TransportError
    /\ Len(results[2].ret.val) = 2
    /\ detected_elements = results[2].ret.val

\* C6 as stated: every vision call that got no response or a status other
\* than 200 reported a failure, returned no elements and did not search the
\* response for elements
C6_VisionFailureReported ==
    \A i \in 1..Len(results) :
        (i <= Len(issued) /\ issued[i].kind = "vision" /\ results[i].response.status # HTTP_OK) =>
            /\ results[i].errors # <<>>
            /\ results[i].ret.val = <<>>
            /\ ~results[i].extracted

\* C10 as stated: every vision request carries the media type of the image it
\* was built for and that image's base64 data
C10_MediaTypeOfImage ==
    \A i \in 1..Len(issued) :
        issued[i].kind = "vision" =>
            /\ issued[i].media_type = MimeOf(screenshots[i].image.format)
            /\ issued[i].data = screenshots[i].data
            /\ \E f \in Files : f.name = screenshots[i].name /\ issued[i].data = b64encode(f.bytes)

----------------------------------------------------------------------------
(* The validator applied to documents in isolation *)

MaxDocFrags == 3

DocFragments ==
    {T_xml_decl, T_testCase, T_summary, T_steps, T_step, <<"s", ">">>, T_locator,
     T_SfVerify, T_SfClick, T_SfWait, T_Assert, <<SP>>}

Documents == {Flatten(q) : q \in SeqsUpTo(DocFragments, MaxDocFrags)}

InitValidate == SessionInit /\ fnArg \in Documents /\ fnRes = None

ApplyValidate ==
    /\ fnRes = None
    /\ fnRes' = Some(validate_provar_test(fnArg))
    /\ UNCHANGED <<sessionVars, fnArg>>

SpecValidate == InitValidate /\ [][ApplyValidate]_vars

InList(list, x) == \E k \in 1..Len(list) : list[k] = x

\* C7: for every document the validator's is_valid is true exactly when its
\* errors list is empty; a document without the <testCase open tag, or without
\* the <steps> tag, is invalid and has the matching message among its errors;
\* a document with both has no errors and is valid
C7_ValidIffNoErrors ==
    fnRes.some =>
        LET v == fnRes.val
        IN /\ v.is_valid <=> (v.errors = <<>>)
           /\ ~Contains(fnArg, T_testCase) =>
                  ~v.is_valid /\ InList(v.errors, "Missing <testCase> root element")
           /\ ~Contains(fnArg, T_steps) =>
                  ~v.is_valid /\ InList(v.errors, "Missing <steps> element")
           /\ (Contains(fnArg, T_testCase) /\ Contains(fnArg, T_steps)) =>
                  v.errors = <<>> /\ v.is_valid

\* a validated document that has the root tag and lacks the steps tag
C7_Witness ==
    /\ fnRes.some
    /\ Contains(fnArg, T_testCase)
    /\ ~Contains(fnArg, T_steps)
    /\ fnRes.val.errors = <<"Missing <steps> element">>

----------------------------------------------------------------------------
(* The fence stripping applied to wrapped markup in isolation *)

MaxMarkupFrags == 3

FENCE_MARK == <<BQ, BQ, BQ>>

MarkupFragments == {<<"<", "a", ">">>, <<SP>>, <<NL>>, FENCE_MARK}

Markups == {Flatten(q) : q \in SeqsUpTo(MarkupFragments, MaxMarkupFrags)}

ProseBefore == {<<>>, <<"H", "i", ":", NL>>}
ProseAfter == {<<>>, <<NL, "b", "y", "e">>}
OtherBlock == <<"<", "o", ">">>

WrapKinds == {"labeled", "generic", "generic_then_labeled", "labeled_then_generic", "plain"}

\* the response text in which the markup is wrapped
Wrapped(a) ==
    IF a.kind = "labeled" THEN
        Flatten(<<a.before, FENCE_XML_OPEN, a.markup, FENCE_CLOSE, a.after>>)
    ELSE IF a.kind = "generic" THEN
        Flatten(<<a.before, FENCE_OPEN, a.markup, FENCE_CLOSE, a.after>>)
    ELSE IF a.kind = "generic_then_labeled" THEN
        Flatten(<<a.before, FENCE_OPEN, OtherBlock, FENCE_CLOSE, <<NL>>,
                  FENCE_XML_OPEN, a.markup, FENCE_CLOSE, a.after>>)
    ELSE IF a.kind = "labeled_then_generic" THEN
        Flatten(<<a.before, FENCE_XML_OPEN, a.markup, FENCE_CLOSE, <<NL>>,
                  FENCE_OPEN, OtherBlock, FENCE_CLOSE, a.after>>)
    ELSE Flatten(<<a.before, a.markup, a.after>>)

InitExtract ==
    /\ SessionInit
    /\ fnArg \in [kind : WrapKinds, before : ProseBefore, markup : Markups, after : ProseAfter]
    /\ fnRes = None

ApplyExtract ==
    /\ fnRes = None
    /\ fnRes' = Some(ExtractXml(Wrapped(fnArg)))
    /\ UNCHANGED <<sessionVars, fnArg>>

SpecExtract == InitExtract /\ [][ApplyExtract]_vars

\* the text has a fence around the markup: a labeled one, a generic one, or both
HasFence(a) == a.kind # "plain"

\* what the claim says of a text with no fence marker at all
C8_Plain ==
    (fnArg.kind = "plain" /\ ~Contains(Wrapped(fnArg), FENCE_MARK)) =>
        fnRes.val = Strip(Wrapped(fnArg))

\* C8 as stated: for every markup M wrapped in a fence labeled xml, with or
\* without prose around it and with or without a generic fence beside it, the
\* extraction is M stripped; with only a generic fence it is the inner
\* content, stripped; with no fence it is the text stripped
C8_Original ==
    fnRes.some =>
        /\ HasFence(fnArg) => fnRes.val = Strip(fnArg.markup)
        /\ C8_Plain

\* C8 amended: the same, for every markup M in which no newline is directly
\* followed by three backquotes
C8_RoundTrip ==
    fnRes.some =>
        /\ (HasFence(fnArg) /\ ~Contains(fnArg.markup, FENCE_CLOSE)) =>
               fnRes.val = Strip(fnArg.markup)
        /\ C8_Plain

\* prose, a generic fence and then a labeled fence around markup that has
\* blanks to strip: the markup of the labeled fence is returned
C8_Witness ==
    /\ fnRes.some
    /\ fnArg.kind = "generic_then_labeled"
    /\ fnArg.before # <<>>
    /\ fnArg.after # <<>>
    /\ ~Contains(fnArg.markup, FENCE_CLOSE)
    /\ Strip(fnArg.markup) # fnArg.markup
    /\ Strip(fnArg.markup) # <<>>
    /\ fnRes.val = Strip(fnArg.markup)

----------------------------------------------------------------------------
(* Sessions with at most one image, whose generation responses are the     *)
(* documents made of up to three of the fragments below, and DocValid      *)

ScenarioFragments == {<<>>, T_testCase, T_steps, T_SfVerify}

ScenarioDocuments ==
    {Flatten(<<a, b, c>>) : a \in ScenarioFragments, b \in ScenarioFragments,
                            c \in ScenarioFragments} \cup {DocValid}

ScenarioUploads == {<<>>, <<PngFile>>}

ScenarioVisionResponses ==
    {TransportError,
     HttpResponse(HTTP_OK, <<"x">>),
     HttpResponse(HTTP_OK, <<"[", "{login}", "]">>),
     HttpResponse(HTTP_OK, <<"[", "{username}", "]", "x", "[", "{login}", "]">>)}

ScenarioGenerationResponses ==
    {TransportError} \cup {HttpResponse(HTTP_OK, d) : d \in ScenarioDocuments}

NextScenario ==
    \/ \E files \in ScenarioUploads : Upload(files)
    \/ \E test_name \in TestNames \ {""}, url \in Urls, description \in Descriptions \ {""},
          dom_html \in DomHtmls : ClickGenerate(test_name, url, description, dom_html)
    \/ \E response \in ScenarioVisionResponses : VisionReturn(response)
    \/ \E response \in ScenarioGenerationResponses : GenerateReturn(response)

SpecScenario == Init /\ [][NextScenario]_vars

\* the last click was an attempt with a name, a description, no DOM and no
\* image in the queue
PlainAttempt ==
    /\ pre.some
    /\ inputs.test_name # ""
    /\ inputs.description # ""
    /\ inputs.dom_html = ""
    /\ screenshots = <<>>

\* C9: an attempt with a name and a description, no queued image and no DOM
\* posts exactly one request, the generation request; and when the response
\* is a document with the <testCase tag, the <steps> tag and SfVerify, the
\* stored validation is valid, has no errors, and its info has a step count
\* entry and the verification entry
C9_PlainAttempt ==
    PlainAttempt =>
        /\ Len(issued) = 1
        /\ issued[1].kind = "generation"
        /\ (/\ AttemptDone
            /\ GenResult.response.status = HTTP_OK
            /\ GenResult.response.body_ok
            /\ Contains(GenResult.response.text, T_testCase)
            /\ Contains(GenResult.response.text, T_steps)
            /\ Contains(GenResult.response.text, T_SfVerify)) =>
               /\ generated_test = Some(GenResult.response.text)
               /\ validation_results.some
               /\ validation_results.val.is_valid
               /\ validation_results.val.errors = <<>>
               /\ \E n \in 1..Len(generated_test.val) :
                      InList(validation_results.val.info, StepsMessage(n))
               /\ InList(validation_results.val.info, "OK Includes verification/assertions")

\* a plain attempt got a document whose only step match is the <steps> tag
C9_Witness ==
    /\ PlainAttempt
    /\ AttemptDone
    /\ GenResult.response = HttpResponse(HTTP_OK, Flatten(<<T_testCase, T_steps, T_SfVerify>>))
    /\ uploaded_files = <<>>
    /\ validation_results.some
    /\ validation_results.val.is_valid
    /\ InList(validation_results.val.info, StepsMessage(1))


----------------------------------------------------------------------------
(* The analysis condition and the order of the calls *)

\* the last script run is an attempt that passed the entry guard
AttemptStarted == pre.some /\ issued # <<>>

VisionIssued == {i \in 1..Len(issued) : issued[i].kind = "vision"}
GenerationIssued == {i \in 1..Len(issued) : issued[i].kind = "generation"}

\* C11: an attempt posts vision requests only if images are queued and no
\* element was accumulated when it started; an attempt started with
\* accumulated elements posts no vision request, whatever the queue holds,
\* leaves the elements as they were and passes them to the generation request
C11_AnalysisOnlyWithoutElements ==
    AttemptStarted =>
        /\ VisionIssued # {} => (screenshots # <<>> /\ pre.val.detected_elements = <<>>)
        /\ pre.val.detected_elements # <<>> =>
               /\ VisionIssued = {}
               /\ Len(issued) = 1
               /\ issued[1].kind = "generation"
               /\ issued[1].elements_info = pre.val.detected_elements
               /\ detected_elements = pre.val.detected_elements

\* an attempt started with one accumulated element and two queued images has
\* ended with the generation request as its only call
C11_Witness ==
    /\ AttemptDone
    /\ Len(pre.val.detected_elements) = 1
    /\ Len(screenshots) = 2
    /\ Len(issued) = 1
    /\ issued[1].kind = "generation"
    /\ issued[1].elements_info = pre.val.detected_elements


\* the calls of the attempt that have been posted and have not returned
Outstanding == Len(issued) - Len(results)

\* C12: in an attempt that passed the entry guard at most one call is
\* outstanding at any time; the vision requests are the first requests, the
\* i-th of them carrying the i-th queued image; exactly one generation request
\* is posted, as the last request, when every vision call of the attempt has
\* returned, one for each queued image if there was any, and it carries the
\* elements accumulated by then
C12_CallsSequential ==
    AttemptStarted =>
        /\ Outstanding = (IF pc = "idle" THEN 0 ELSE 1)
        /\ \A i \in VisionIssued :
               /\ i <= Len(screenshots)
               /\ issued[i] = VisionRequest(screenshots[i].data)
               /\ \A j \in 1..i : j \in VisionIssued
        /\ Cardinality(GenerationIssued) = (IF pc = "analyzing" THEN 0 ELSE 1)
        /\ \A g \in GenerationIssued :
               /\ g = Len(issued)
               /\ Len(results) >= g - 1
               /\ \A i \in VisionIssued : results[i].response \in VisionResponses
               /\ VisionIssued \in {{}, 1..Len(screenshots)}
               /\ issued[g].elements_info = detected_elements

\* an attempt with two queued images has ended after three calls, the first
\* of which failed
C12_Witness ==
    /\ AttemptDone
    /\ Len(screenshots) = 2
    /\ Len(issued) = 3
    /\ Len(results) = 3
    /\ results[1].response = TransportError
    /\ issued[3].elements_info # <<>>


----------------------------------------------------------------------------
(* Termination of an attempt *)

VisionReturns == \E response \in VisionResponses : VisionReturn(response)
GenerateReturns == \E response \in GenerationResponses : GenerateReturn(response)

\* requests.post is given a timeout (184, 308) and every failure of a call is
\* caught (199-201, 330-332): a call that is outstanding returns
SpecLive == Init /\ [][Next]_vars /\ WF_vars(VisionReturns) /\ WF_vars(GenerateReturns)

\* a call of the attempt is outstanding
AttemptRunning == AttemptStarted /\ pc # "idle"

\* the attempt stored the document the generation step returned and its
\* validation, and reported success
EndsValidated ==
    /\ InList(reported, SUCCESS_MESSAGE)
    /\ Truthy(generated_test)
    /\ generated_test = GenResult.ret
    /\ validation_results = Some(validate_provar_test(generated_test.val))

\* the attempt reported the failure
EndsFailed == InList(reported, FAILED_MESSAGE)

ExactlyOneOutcome == (EndsValidated \/ EndsFailed) /\ ~(EndsValidated /\ EndsFailed)

\* a vision call of the attempt returned no elements
VisionFailed == \E i \in VisionIssued : i <= Len(results) /\ results[i].ret = Some(<<>>)

\* C13: an attempt that passed the entry guard ends, in exactly one of
\* Validated and Failed; its last call is its generation call, and it ends
\* Failed only if that call returned no document, so an attempt whose
\* generation step returned one ends Validated whatever its vision calls did
C13_AttemptEnds ==
    /\ AttemptRunning ~> (AttemptDone /\ ExactlyOneOutcome)
    /\ [](AttemptDone =>
             /\ ExactlyOneOutcome
             /\ GenerationIssued = {Len(results)}
             /\ EndsFailed => ~Truthy(GenResult.ret)
             /\ Truthy(GenResult.ret) => EndsValidated)

\* an attempt whose two vision calls both failed has ended Validated
C13_Witness ==
    /\ AttemptDone
    /\ Len(issued) = 3
    /\ results[1].ret = Some(<<>>)
    /\ results[2].ret = Some(<<>>)
    /\ VisionFailed
    /\ EndsValidated
    /\ ~EndsFailed


----------------------------------------------------------------------------
(* The two clearing buttons *)

\* the elements held before the step are the first of those held after it
ElementsRetained ==
    /\ Len(detected_elements') >= Len(detected_elements)
    /\ SubSeq(detected_elements', 1, Len(detected_elements)) = detected_elements

\* C14: Generate New leaves the session without document and validation and
\* with the elements and the queued screenshots it had; Clear All leaves it
\* without document and validation and with no elements and no queued
\* screenshots; every other step, the return of a failed generation call
\* included, retains the accumulated elements
C14_ClearingScopes ==
    [][/\ GenerateNew =>
              /\ generated_test' = None
              /\ validation_results' = None
              /\ UNCHANGED <<detected_elements, screenshots>>
       /\ ClearAll =>
              /\ generated_test' = None
              /\ validation_results' = None
              /\ detected_elements' = <<>>
              /\ screenshots' = <<>>
       /\ ~ClearAll => ElementsRetained]_vars

====
